---- MODULE Spec2Model ----
(***************************************************************************)
(* Model of wusui/pent_func: the pentomino layout tree (grow_tree.py) and  *)
(* the backtracking rectangle solver (solve.py).                           *)
(*                                                                         *)
(* Python lists are sequences; a Python index i is the TLA+ index i + 1.   *)
(* A coordinate [a, b] is the tuple <<a, b>>: a is coord[0], b is coord[1].*)
(* Fields that hold Python indices (pindx, offspring) keep Python's        *)
(* 0-based values.  A board is a sequence of rows, a row a sequence of     *)
(* one-character strings.                                                  *)
(***************************************************************************)
EXTENDS Integers, Sequences, FiniteSets, TLC

\* ------------------------------------------------------------------------
\* Python built-ins used by the source
\* ------------------------------------------------------------------------
Abs(x) == IF x < 0 THEN 0 - x ELSE x

RECURSIVE Pow2(_)
Pow2(n) == IF n = 0 THEN 1 ELSE 2 * Pow2(n - 1)

RECURSIVE SumSeq(_)
SumSeq(s) == IF s = <<>> THEN 0 ELSE Head(s) + SumSeq(Tail(s))

RECURSIVE MinSeq(_)
MinSeq(s) ==
    IF Len(s) = 1 THEN s[1]
    ELSE LET m == MinSeq(Tail(s)) IN IF s[1] <= m THEN s[1] ELSE m

\* itertools.chain.from_iterable over a list of lists
RECURSIVE Chain(_)
Chain(ss) == IF ss = <<>> THEN <<>> ELSE Head(ss) \o Chain(Tail(ss))

\* x in list
InSeq(x, s) == \E i \in 1..Len(s) : s[i] = x

\* list.count(x)
Count(s, x) == Cardinality({i \in 1..Len(s) : s[i] = x})

\* list.index(x), 0-based; the model's Len(s) stands for Python's ValueError
Index(s, x) ==
    IF \E i \in 1..Len(s) : s[i] = x
    THEN (CHOOSE i \in 1..Len(s) : s[i] = x /\ \A j \in 1..(i - 1) : s[j] # x) - 1
    ELSE Len(s)

\* ------------------------------------------------------------------------
\* grow_tree.py
\* ------------------------------------------------------------------------
coord_to_id(coord) ==
    LET dist == Abs(coord[1]) + Abs(coord[2])
    IN  dist * (dist - 1) + dist + coord[1]

get_val(node_v) ==
    SumSeq([i \in 1..Len(node_v) |-> Pow2(coord_to_id(node_v[i]))])

flipf(points) == [i \in 1..Len(points) |-> <<points[i][2], points[i][1]>>]

shift_right(spoints) ==
    LET hlim == MinSeq([i \in 1..Len(spoints) |-> spoints[i][1]])
    IN  [i \in 1..Len(spoints) |-> <<spoints[i][1] - hlim, spoints[i][2]>>]

shift_up(spoints) ==
    LET vlim == MinSeq([i \in 1..Len(spoints) |-> spoints[i][2]])
    IN  [i \in 1..Len(spoints) |-> <<spoints[i][1], spoints[i][2] - vlim>>]

rotato(rot_fctrs, ipoints) ==
    [i \in 1..Len(ipoints) |->
        <<ipoints[i][1] * rot_fctrs[1], ipoints[i][2] * rot_fctrs[2]>>]

cmp_fig(rot_fctrs, ipoints) ==
    get_val(shift_up(shift_right(rotato(rot_fctrs, ipoints))))

RotFctrs == << <<1, 1>>, <<1, -1>>, <<-1, 1>>, <<-1, -1>> >>

\* mutant: the transposed images are left out
gen_rots_no_flip(points) == [k \in 1..4 |-> cmp_fig(RotFctrs[k], points)]

gen_rots(points) ==
    Chain([k \in 1..4 |->
        << cmp_fig(RotFctrs[k], points), cmp_fig(RotFctrs[k], flipf(points)) >>])

id_to_dict(numb) ==
    LET gdict(rangev) ==
            [dfo |-> rangev + 1, sv |-> numb - rangev * (rangev + 1)]
        cands == SelectSeq([k \in 1..4 |-> gdict(k - 1)], LAMBDA d : d.sv > 0)
    IN  cands[Len(cands)]

id_dconv(idict) ==
    LET yval == idict.sv - idict.dfo
    IN  <<yval, idict.dfo - Abs(yval)>>

\* mutant: the candidate ids stop one ring short
max_indx_square(indx) == (indx + 1) * (indx + 1)

max_indx(indx) == (indx + 1) * (indx + 2)

\* mutant: the square ids are enumerated upwards, range(1, max_indx + 1)
get_off_coords_up(p_node) ==
    LET top == max_indx(Len(p_node.lineage))
    IN  [k \in 1..top |-> id_dconv(id_to_dict(k))]

get_off_coords(p_node) ==
    LET top == max_indx(Len(p_node.lineage))
    IN  [k \in 1..top |-> id_dconv(id_to_dict(top + 1 - k))]

find_n(p_node, off_coord) ==
    LET ntest(tcoord) ==
            Abs(tcoord[1] - off_coord[1]) + Abs(tcoord[2] - off_coord[2]) = 1
    IN  IF off_coord = p_node.coord \/ InSeq(off_coord, p_node.lineage)
        THEN <<>>
        ELSE SelectSeq(<<p_node.coord>> \o p_node.lineage, ntest)

get_off(p_node) ==
    SelectSeq(get_off_coords(p_node), LAMBDA c : find_n(p_node, c) # <<>>)

glin(n_lin_data) == Append(n_lin_data.lineage, n_lin_data.coord)

next_level(prev_nodes) ==
    LET last == prev_nodes[Len(prev_nodes)]
        hndl_grp(g) ==
            LET offs == get_off(last[g])
            IN  [k \in 1..Len(offs) |->
                    [coord |-> offs[k], lineage |-> glin(last[g]), pindx |-> g - 1]]
    IN  Chain([g \in 1..Len(last) |-> hndl_grp(g)])

comp_val(node_v) == get_val(Append(node_v.lineage, node_v.coord))

rm_dups(tree_lev) ==
    LET nvals == [i \in 1..Len(tree_lev) |-> comp_val(tree_lev[i])]
        lchk(i) == \A j \in 1..(i - 1) : nvals[j] # nvals[i]
        keep == SelectSeq([i \in 1..Len(tree_lev) |-> i], lchk)
    IN  [k \in 1..Len(keep) |-> tree_lev[keep[k]]]

RootLevel == << [coord |-> <<0, 0>>, lineage |-> <<>>, pindx |-> -1] >>

\* gen_tree: the whole recursion, as the function the solver calls
RECURSIVE gen_tree_rec(_)
gen_tree_rec(prev) ==
    IF Len(prev) >= 5 THEN prev
    ELSE gen_tree_rec(Append(prev, rm_dups(next_level(prev))))

grow_raw_tree == gen_tree_rec(<<RootLevel>>)

\* add_olinks.  list.index() of a parent without children raises ValueError
\* and link_data[i] of a node past the last parent raises IndexError: the
\* call then raises (add_olinks_raises) and no tree is returned.
pindxs(level) == [i \in 1..Len(level) |-> level[i].pindx]

gp_index(rtree, row_num) ==
    LET nxt == rtree[row_num + 2] IN nxt[Len(nxt)].pindx

\* mutant: the link is the index of the last child, not of the first
olinks_set_last(rtree, row_num) ==
    [n \in 1..(gp_index(rtree, row_num) + 1) |->
        LET ps == pindxs(rtree[row_num + 2])
        IN  IF InSeq(n - 1, ps)
            THEN (CHOOSE j \in 1..Len(ps) :
                      ps[j] = n - 1 /\ \A m \in (j + 1)..Len(ps) : ps[m] # n - 1) - 1
            ELSE Len(ps)]

olinks_set(rtree, row_num) ==
    [n \in 1..(gp_index(rtree, row_num) + 1) |->
        Index(pindxs(rtree[row_num + 2]), n - 1)]

ol_inn_fails(rtree, row_num) ==
    LET link_data == olinks_set(rtree, row_num)
    IN  \/ \E n \in 1..Len(link_data) : link_data[n] = Len(rtree[row_num + 2])
        \/ Len(rtree[row_num + 1]) > Len(link_data)

ol_inn(rtree, row_num) ==
    LET link_data == olinks_set(rtree, row_num)
        row == rtree[row_num + 1]
    IN  [i \in 1..Len(row) |->
            [coord |-> row[i].coord, lineage |-> row[i].lineage,
             pindx |-> row[i].pindx, offspring |-> link_data[i]]]

add_olinks_raises(rtree) == \E row_num \in 0..3 : ol_inn_fails(rtree, row_num)

add_olinks(rtree) ==
    [k \in 1..5 |-> IF k <= 4 THEN ol_inn(rtree, k - 1) ELSE rtree[5]]

\* get_figure: the lookup table; a missing key raises KeyError
FigTable ==
    (55 :> "P") @@ (87 :> "V") @@ (118 :> "W") @@ (535 :> "L") @@
    (563 :> "Y") @@ (566 :> "N") @@ (1047 :> "U") @@ (1125 :> "T") @@
    (1126 :> "F") @@ (1140 :> "Z") @@ (3110 :> "X") @@ (66067 :> "I")

fignum(figure) == MinSeq(gen_rots(Append(figure.lineage, figure.coord)))

get_figure(figure) ==
    IF fignum(figure) \in DOMAIN FigTable THEN FigTable[fignum(figure)]
    ELSE "KeyError"

get_fnumbs(figures) ==
    [i \in 1..Len(figures) |->
        [coord |-> figures[i].coord, lineage |-> figures[i].lineage,
         pindx |-> figures[i].pindx, figure |-> get_figure(figures[i])]]

add_pent_numbs_raises(otree) ==
    \E i \in 1..Len(otree[5]) : get_figure(otree[5][i]) = "KeyError"

add_pent_numbs(otree) ==
    [k \in 1..5 |-> IF k <= 4 THEN otree[k] ELSE get_fnumbs(otree[5])]

grow_tree == add_pent_numbs(add_olinks(grow_raw_tree))

\* ------------------------------------------------------------------------
\* solve.py: boards
\* ------------------------------------------------------------------------
\* Python's list(f) of a computed list: the same list, held as a tuple
List(s) == SelectSeq(s, LAMBDA x : TRUE)

\* range(a, b)
Range(a, b) == [i \in 1..(b - a) |-> a + i - 1]

\* [ch] * n (empty when n <= 0)
Rep(ch, n) == [i \in 1..n |-> ch]

\* mutant: the X centre range reaches one column further
get_x_x_range_wide(ydim) == (7 - ydim) * 2 + ydim \div 3 + 1

get_x_x_range(ydim) == (7 - ydim) * 2 + ydim \div 3

gen_xrow(xpattern) ==
    Rep("-", xpattern[1]) \o Rep("X", xpattern[2]) \o Rep("-", xpattern[3])

mk_row(board, row_num, col_info, b_row_num) ==
    IF b_row_num \in {row_num, row_num + 2}
    THEN gen_xrow(<<col_info + 1, 1, board.xdim - col_info - 2>>)
    ELSE IF b_row_num = row_num + 1
    THEN gen_xrow(<<col_info, 3, board.xdim - col_info - 3>>)
    ELSE Rep("-", board.xdim) \o <<>>

gen_board(board, row_num, col_info) ==
    List([k \in 1..board.ydim |-> mk_row(board, row_num, col_info, k - 1)])

mk_b_rows(board, row_num) ==
    LET cols == Range(board.xinfo[row_num + 1], get_x_x_range(board.ydim))
    IN  [k \in 1..Len(cols) |-> gen_board(board, row_num, cols[k])]

mk_indiv_sz(board) ==
    [key |-> ToString(board.ydim) \o "x" \o ToString(board.xdim),
     boards |-> Chain([k \in 1..Len(board.xinfo) |-> mk_b_rows(board, k - 1)])]

\* a dict is the sequence of its [key, value] items in insertion order
mk_board(board_info) ==
    List([k \in 1..Len(board_info) |-> mk_indiv_sz(board_info[k])])

get_box_parms(ydim) ==
    LET xdim == 60 \div ydim
        row_cnt == (ydim - 1) \div 2
    IN  [ydim |-> ydim, xdim |-> xdim,
         xinfo |-> [k \in 1..row_cnt |-> 2 - k],
         xmax |-> get_x_x_range(ydim)]

get_boards ==
    LET ydims == Range(3, 7)
    IN  mk_board([k \in 1..Len(ydims) |-> get_box_parms(ydims[k])])

\* list(chain.from_iterable(zip(*board)))
ColMajor(board) ==
    LET h == Len(board)
    IN  List([k \in 1..(h * Len(board[1])) |->
                board[((k - 1) % h) + 1][((k - 1) \div h) + 1]])

\* list(zip(*board))
Zip(board) ==
    List([c \in 1..Len(board[1]) |-> List([r \in 1..Len(board) |-> board[r][c]])])

find_origin_raises(board) == ~InSeq("-", ColMajor(board))

find_origin(board) ==
    LET number == Index(ColMajor(board), "-")
    IN  <<number % Len(board), number \div Len(board)>>

set_points_in_board(points, board, value) ==
    List([r \in 1..Len(board) |->
        List([c \in 1..Len(board[r]) |->
            IF InSeq(<<r - 1, c - 1>>, points) /\ board[r][c] = "-"
            THEN value ELSE board[r][c]])])

\* mutant: the leaf's own coordinate is left out
add_fig_brd_lineage_only(figure, origin) ==
    [k \in 1..Len(figure.lineage) |->
        <<origin[1] + figure.lineage[k][1], origin[2] + figure.lineage[k][2]>>]

add_fig_brd(figure, origin) ==
    LET pt_add(a_point) == <<origin[1] + a_point[1], origin[2] + a_point[2]>>
    IN  [k \in 1..Len(figure.lineage) |-> pt_add(figure.lineage[k])]
            \o <<pt_add(figure.coord)>>

\* mutant: the pass does not look at the cell below
chk_open_area_no_up(board) ==
    LET h == Len(board)
        w == Len(board[1])
        increase_a_range(r, c) ==
            IF board[r][c] # "-" THEN board[r][c]
            ELSE IF r - 1 > 0 /\ board[r - 1][c] = "A" THEN "A"
            ELSE IF c - 1 > 0 /\ board[r][c - 1] = "A" THEN "A"
            ELSE IF c - 1 < w - 1 /\ board[r][c + 1] = "A" THEN "A"
            ELSE "-"
    IN  List([r \in 1..h |-> List([c \in 1..w |-> increase_a_range(r, c)])])

chk_open_area(board) ==
    LET h == Len(board)
        w == Len(board[1])
        increase_a_range(r, c) ==
            IF board[r][c] # "-" THEN board[r][c]
            ELSE IF r - 1 > 0 /\ board[r - 1][c] = "A" THEN "A"
            ELSE IF c - 1 > 0 /\ board[r][c - 1] = "A" THEN "A"
            ELSE IF r - 1 < h - 1 /\ board[r + 1][c] = "A" THEN "A"
            ELSE IF c - 1 < w - 1 /\ board[r][c + 1] = "A" THEN "A"
            ELSE "-"
    IN  List([r \in 1..h |-> List([c \in 1..w |-> increase_a_range(r, c)])])

RECURSIVE count_open_area(_)
count_open_area(board) ==
    LET pbc == Count(Chain(board), "A")
        newb == chk_open_area(board)
    IN  IF Count(Chain(newb), "A") = pbc THEN pbc ELSE count_open_area(newb)

fragment_ok(board) ==
    count_open_area(set_points_in_board(<<find_origin(board)>>, board, "A")) % 5 = 0

make_layout_cmd(sdata) ==
    List([k \in 1..Len(sdata) |->
        [key |-> sdata[k].key, boards |-> SelectSeq(sdata[k].boards, fragment_ok)]])

ycount(ycnt) == Count(Chain(ycnt), "Y")

\* mutant: a layout is dropped whenever the Y counts of the two sides differ
nsi_comp_both(nboard) ==
    LET mid_point == Len(nboard) \div 2
    IN  IF Count(nboard[mid_point + 1], "X") # 3 THEN TRUE
        ELSE ycount(SubSeq(nboard, 1, mid_point))
                 = ycount(SubSeq(nboard, mid_point + 2, Len(nboard)))

nsi_comp(nboard) ==
    LET mid_point == Len(nboard) \div 2
    IN  IF Count(nboard[mid_point + 1], "X") # 3 THEN TRUE
        ELSE ~(ycount(SubSeq(nboard, 1, mid_point))
                 > ycount(SubSeq(nboard, mid_point + 2, Len(nboard))))

\* mutant: the filter is switched off
no_symmetry_issue_off(board) == TRUE

\* mutant: the filter looks at the centre row of an odd height only
no_symmetry_issue_narrow(board) ==
    IF Len(board) % 2 = 1 THEN nsi_comp(board) ELSE TRUE

no_symmetry_issue(board) ==
    IF Len(board[1]) = 10 THEN TRUE
    ELSE IF Len(board[1]) % 2 = 1 THEN nsi_comp(Zip(board))
    ELSE nsi_comp(board)

\* '\n'.join(''.join(row)): a string is the sequence of its characters
RECURSIVE stringify(_)
stringify(board) ==
    IF Len(board) = 1 THEN board[1]
    ELSE board[1] \o <<"\n">> \o stringify(Tail(board))

\* ------------------------------------------------------------------------
\* State
\* ------------------------------------------------------------------------
VARIABLES
    pc,          \* the step solve() is at
    prev_nodes,  \* gen_tree's tree so far (list of levels); <<>> once passed on
    tree,        \* the tree grow_tree() returns; <<>> before and after tsolve
    boards,      \* get_boards(); <<>> once make_layout_cmd has consumed it
    layout,      \* make_layout_cmd(get_boards()); <<>> after ssolve
    keyi,        \* the number of the layout key being solved (1 = first)
    call,        \* the chk_ps call followed: its board and the leaves it maps
    probe,       \* the board last given to w_newboard and what it returned
    res,         \* ssolve: [key, sols] per key solved, in order
    ref          \* reference enumeration of tilings (SpecSolve only)

vars == <<pc, prev_nodes, tree, boards, layout, keyi, call, probe, res, ref>>

\* Number of layout keys (rectangles) ssolve is followed through; solve()
\* itself runs all four.
MaxKeys == 1

\* ------------------------------------------------------------------------
\* solve.py: search
\* ------------------------------------------------------------------------
\* mutant: only the bounds are tested, not the cell
is_bad_bounds_only(origin, coord, board) ==
    LET f_node == <<origin[1] + coord[1], origin[2] + coord[2]>>
    IN  IF f_node[1] >= Len(board) THEN TRUE
        ELSE IF f_node[2] >= Len(board[1]) THEN TRUE
        ELSE IF f_node[1] < 0 THEN TRUE
        ELSE f_node[2] < 0

is_bad(origin, coord, board) ==
    LET f_node == <<origin[1] + coord[1], origin[2] + coord[2]>>
    IN  IF f_node[1] >= Len(board) THEN TRUE
        ELSE IF f_node[2] >= Len(board[1]) THEN TRUE
        ELSE IF f_node[1] < 0 THEN TRUE
        ELSE IF f_node[2] < 0 THEN TRUE
        ELSE board[f_node[1] + 1][f_node[2] + 1] # "-"

f_gnodes(level, good_p, origin, board) ==
    LET lev == tree[level + 1]
        chk_a_node(n) ==
            IF ~InSeq(lev[n + 1].pindx, good_p) THEN FALSE
            ELSE ~is_bad(origin, lev[n + 1].coord, board)
    IN  SelectSeq([i \in 1..Len(lev) |-> i - 1], chk_a_node)

RECURSIVE find_tiles(_, _, _, _)
find_tiles(level, good_p, origin, board) ==
    LET node_info == f_gnodes(level, good_p, origin, board)
    IN  IF level = 4 THEN node_info
        ELSE find_tiles(level + 1, node_info, find_origin(board), board)

ldft(sboard) == find_tiles(1, <<0>>, find_origin(sboard), sboard)

\* mutant: a V already on the board is not excluded
dup_pc_but_V(sboard, pnumb) ==
    tree[5][pnumb + 1].figure = "V" \/ ~InSeq(tree[5][pnumb + 1].figure, Chain(sboard))

dup_pc(sboard, pnumb) == ~InSeq(tree[5][pnumb + 1].figure, Chain(sboard))

\* the board do_recurs hands to w_newboard
place(sboard, fnumb) ==
    set_points_in_board(
        add_fig_brd(tree[5][fnumb + 1], find_origin(sboard)),
        sboard, tree[5][fnumb + 1].figure)

\* mutant: the full board is not recognised before the pruning tests
w_newboard_no_full_test(newboard) ==
    IF fragment_ok(newboard) /\ no_symmetry_issue(newboard)
    THEN [board |-> newboard, ret |-> <<>>, rec |-> TRUE]
    ELSE [board |-> newboard, ret |-> <<>>, rec |-> FALSE]

\* w_newboard: ret is the list it returns without recursing; rec says that
\* it returns chk_ps(newboard) instead
w_newboard(newboard) ==
    IF Count(Chain(newboard), "-") = 0
    THEN IF no_symmetry_issue(newboard)
         THEN [board |-> newboard, ret |-> <<stringify(newboard)>>, rec |-> FALSE]
         ELSE [board |-> newboard, ret |-> <<>>, rec |-> FALSE]
    ELSE IF fragment_ok(newboard) /\ no_symmetry_issue(newboard)
         THEN [board |-> newboard, ret |-> <<>>, rec |-> TRUE]
         ELSE [board |-> newboard, ret |-> <<>>, rec |-> FALSE]

\* the leaves chk_ps(sboard) maps do_recurs over: filter(dup_pc, ldft())
chk_ps_call(sboard) ==
    [board |-> sboard,
     cands |-> SelectSeq(ldft(sboard), LAMBDA pnumb : dup_pc(sboard, pnumb))]

\* chk_ps(sboard): the solutions of the whole recursion below sboard
RECURSIVE chk_ps(_)
chk_ps(sboard) ==
    LET cands == chk_ps_call(sboard).cands
        do_recurs_of(fnumb) ==
            LET out == w_newboard(place(sboard, fnumb))
            IN  IF out.rec THEN chk_ps(out.board) ELSE out.ret
    IN  Chain(List([k \in 1..Len(cands) |-> do_recurs_of(cands[k])]))

\* layout_res + chain: the solutions of all the boards of one key
layout_res(one_lset) ==
    Chain(List([k \in 1..Len(one_lset) |-> chk_ps(one_lset[k])]))

NoCall == [board |-> <<>>, cands |-> <<>>]
NoProbe == [board |-> <<>>, ret |-> <<>>, rec |-> FALSE]
NoRef == [key |-> 0, open |-> {}, tiles |-> {}, used |-> {}]

\* pentominoes placed after the X
Placed(board) == (Len(board) * Len(board[1]) - Count(Chain(board), "-")) \div 5 - 1

\* ------------------------------------------------------------------------
\* Actions
\* ------------------------------------------------------------------------
Init ==
    /\ pc = "gen_tree"
    /\ prev_nodes = <<RootLevel>>
    /\ tree = <<>>
    /\ boards = <<>>
    /\ layout = <<>>
    /\ keyi = 0
    /\ call = NoCall
    /\ probe = NoProbe
    /\ res = <<>>
    /\ ref = NoRef

gen_tree ==
    /\ pc = "gen_tree"
    /\ IF Len(prev_nodes) >= 5
       THEN /\ pc' = "add_olinks"
            /\ UNCHANGED prev_nodes
       ELSE /\ prev_nodes' = Append(prev_nodes, rm_dups(next_level(prev_nodes)))
            /\ UNCHANGED pc
    /\ UNCHANGED <<tree, boards, layout, keyi, call, probe, res, ref>>

do_add_olinks ==
    /\ pc = "add_olinks"
    /\ IF add_olinks_raises(prev_nodes)
       THEN pc' = "LookupError" /\ UNCHANGED <<prev_nodes, tree>>
       ELSE pc' = "add_pent_numbs" /\ tree' = add_olinks(prev_nodes) /\ prev_nodes' = <<>>
    /\ UNCHANGED <<boards, layout, keyi, call, probe, res, ref>>

do_add_pent_numbs ==
    /\ pc = "add_pent_numbs"
    /\ IF add_pent_numbs_raises(tree)
       THEN pc' = "KeyError" /\ UNCHANGED tree
       ELSE pc' = "get_boards" /\ tree' = add_pent_numbs(tree)
    /\ UNCHANGED <<prev_nodes, boards, layout, keyi, call, probe, res, ref>>

do_get_boards ==
    /\ pc = "get_boards"
    /\ boards' = get_boards
    /\ pc' = "make_layout_cmd"
    /\ UNCHANGED <<prev_nodes, tree, layout, keyi, call, probe, res, ref>>

do_make_layout_cmd ==
    /\ pc = "make_layout_cmd"
    /\ layout' = make_layout_cmd(boards)
    /\ boards' = <<>>
    /\ pc' = "ssolve"
    /\ UNCHANGED <<prev_nodes, tree, keyi, call, probe, res, ref>>

\* handle_one_layout_set: chk_ps(board) is called for an initial board of
\* one of the first MaxKeys keys of the layout
handle_one_layout_set ==
    /\ pc = "ssolve"
    /\ \E k \in 1..Len(layout) :
           /\ k <= MaxKeys
           /\ keyi' = k
           /\ \E n \in 1..Len(layout[k].boards) :
                  IF find_origin_raises(layout[k].boards[n])
                  THEN pc' = "ValueError" /\ UNCHANGED call
                  ELSE pc' = "chk_ps" /\ call' = chk_ps_call(layout[k].boards[n])
    /\ UNCHANGED <<prev_nodes, tree, boards, layout, probe, res, ref>>

\* do_recurs for the k-th leaf the followed call maps: w_newboard gets the
\* new board; if it recurses, the call followed becomes chk_ps(newboard)
recurs_step(k) ==
    LET out == w_newboard(place(call.board, call.cands[k]))
    IN  /\ probe' = out
        /\ IF ~out.rec
           THEN UNCHANGED <<pc, call>>
           ELSE IF find_origin_raises(out.board)
           THEN pc' = "ValueError" /\ UNCHANGED call
           ELSE call' = chk_ps_call(out.board) /\ UNCHANGED pc

\* a w_newboard that does not recurse ends the path followed
do_recurs ==
    /\ pc = "chk_ps"
    /\ keyi <= MaxKeys
    /\ probe = NoProbe \/ probe.rec
    /\ \E k \in 1..Len(call.cands) : recurs_step(k)
    /\ UNCHANGED <<prev_nodes, tree, boards, layout, keyi, res, ref>>

Next ==
    \/ gen_tree
    \/ do_add_olinks
    \/ do_add_pent_numbs
    \/ do_get_boards
    \/ do_make_layout_cmd
    \/ handle_one_layout_set
    \/ do_recurs

Spec == Init /\ [][Next]_vars

\* ------------------------------------------------------------------------
\* SpecPlace: chk_ps followed from every initial board of all four
\* rectangles for the first MaxDepth placements.
\* ------------------------------------------------------------------------
MaxDepth == 2

InitPlace ==
    /\ pc = "chk_ps"
    /\ prev_nodes = <<>>
    /\ tree = grow_tree
    /\ boards = <<>>
    /\ layout = make_layout_cmd(get_boards)
    /\ keyi \in 1..Len(layout)
    /\ \E n \in 1..Len(layout[keyi].boards) :
           call = chk_ps_call(layout[keyi].boards[n])
    /\ probe = NoProbe
    /\ res = <<>>
    /\ ref = NoRef

try_leaf ==
    /\ pc = "chk_ps"
    /\ probe = NoProbe \/ probe.rec
    /\ Placed(call.board) < MaxDepth
    /\ \E k \in 1..Len(call.cands) : recurs_step(k)
    /\ UNCHANGED <<prev_nodes, tree, boards, layout, keyi, res, ref>>

SpecPlace == InitPlace /\ [][try_leaf]_vars

\* ------------------------------------------------------------------------
\* Reference geometry, stated on sets of cells and independent of the tree
\* ------------------------------------------------------------------------
Adjacent(p, q) == Abs(p[1] - q[1]) + Abs(p[2] - q[2]) = 1

\* the cells within distance d that follow (0,0) in the solver's scan order
\* (down each column, columns left to right): <<row offset, column offset>>
HalfCells(d) ==
    {p \in (0 - d..d) \X (0..d) :
        Abs(p[1]) + p[2] <= d /\ (p[2] > 0 \/ (p[2] = 0 /\ p[1] > 0))}

RECURSIVE KSubsets(_, _)
KSubsets(S, k) ==
    IF k = 0 THEN {{}}
    ELSE IF S = {} THEN {}
    ELSE LET x == CHOOSE y \in S : TRUE
         IN  KSubsets(S \ {x}, k) \cup {T \cup {x} : T \in KSubsets(S \ {x}, k - 1)}

RECURSIVE ReachIn(_, _)
ReachIn(R, s) ==
    LET n == R \cup {c \in s : \E d \in R : Adjacent(c, d)}
    IN  IF n = R THEN R ELSE ReachIn(n, s)

RefConnected(s) == ReachIn({<<0, 0>>}, s) = s

\* RefShapes[k]: every edge-connected set of k cells made of (0,0) and cells
\* that follow it in scan order
RefShapes ==
    [k \in 1..5 |->
        {s \in {t \cup {<<0, 0>>} : t \in KSubsets(HalfCells(k - 1), k - 1)} :
            RefConnected(s)}]

RefNorm(s) ==
    LET r0 == CHOOSE r \in {p[1] : p \in s} : \A p \in s : r <= p[1]
        c0 == CHOOSE c \in {p[2] : p \in s} : \A p \in s : c <= p[2]
    IN  {<<p[1] - r0, p[2] - c0>> : p \in s}

\* the images of s under the 8 rotations and reflections, each translated
\* to touch both axes
RefImages(s) ==
    {RefNorm({<<a * p[1], b * p[2]>> : p \in s}) : a \in {-1, 1}, b \in {-1, 1}}
    \cup {RefNorm({<<a * p[2], b * p[1]>> : p \in s}) : a \in {-1, 1}, b \in {-1, 1}}

RefCongruent(s, t) == RefNorm(t) \in RefImages(s)

Letters == {"F", "I", "L", "N", "P", "T", "U", "V", "W", "X", "Y", "Z"}

SeqSet(s) == {s[i] : i \in 1..Len(s)}

\* the cells of a tree node: lineage + [coord]
NodeCells(node) == SeqSet(Append(node.lineage, node.coord))

\* ------------------------------------------------------------------------
\* C5: each level of the tree holds exactly the edge-connected sets of k
\* cells that contain (0,0) and otherwise only cells after it in scan order,
\* each once; no two nodes of a level share a signature; sizes 1,2,6,19,63.
\* (Stated while gen_tree runs: prev_nodes never changes afterwards.)
\* ------------------------------------------------------------------------
LevelSizes == <<1, 2, 6, 19, 63>>

C5_LevelsAreTheConnectedSets ==
    pc = "gen_tree" =>
    \A k \in 1..Len(prev_nodes) :
        LET lev == prev_nodes[k]
        IN  /\ \A i \in 1..Len(lev) : Cardinality(NodeCells(lev[i])) = k
            /\ {NodeCells(lev[i]) : i \in 1..Len(lev)} = RefShapes[k]
            /\ \A i, j \in 1..Len(lev) :
                   i # j => /\ NodeCells(lev[i]) # NodeCells(lev[j])
                            /\ comp_val(lev[i]) # comp_val(lev[j])
            /\ Len(lev) = LevelSizes[k]

C5_Witness == pc = "gen_tree" /\ Len(prev_nodes) = 5 /\ Len(prev_nodes[5]) = 63

\* ------------------------------------------------------------------------
\* C6: the figure lookup never fails on a leaf; two leaves get the same
\* letter iff their cell sets are congruent; all 12 letters occur.
\* (Stated where grow_tree() returns: the tree never changes afterwards.)
\* ------------------------------------------------------------------------
HasFigures == pc = "get_boards"

C6_FiguresAreCongruenceClasses ==
    /\ pc # "KeyError"
    /\ pc = "add_pent_numbs" =>
          \A i \in 1..Len(tree[5]) :
              MinSeq(gen_rots(Append(tree[5][i].lineage, tree[5][i].coord)))
                  \in DOMAIN FigTable
    /\ HasFigures =>
          /\ \A i, j \in 1..Len(tree[5]) :
                 (tree[5][i].figure = tree[5][j].figure)
                     <=> RefCongruent(NodeCells(tree[5][i]), NodeCells(tree[5][j]))
          /\ {tree[5][i].figure : i \in 1..Len(tree[5])} = Letters

C6_Witness == HasFigures /\ Len(tree[5]) = 63

\* ------------------------------------------------------------------------
\* Reference reading of a board: cells are <<row, column>>, 0-based
\* ------------------------------------------------------------------------
BoardCells(board) == (0..(Len(board) - 1)) \X (0..(Len(board[1]) - 1))

CellsOf(board, ch) == {p \in BoardCells(board) : board[p[1] + 1][p[2] + 1] = ch}

IsOpen(board, p) == p \in BoardCells(board) /\ board[p[1] + 1][p[2] + 1] = "-"

HasOpen(board) == CellsOf(board, "-") # {}

Nbrs(p) ==
    {<<p[1] - 1, p[2]>>, <<p[1] + 1, p[2]>>, <<p[1], p[2] - 1>>, <<p[1], p[2] + 1>>}

RECURSIVE Flood(_, _, _)
Flood(R, F, open) ==
    LET new == ((UNION {Nbrs(d) : d \in F}) \cap open) \ R
    IN  IF new = {} THEN R ELSE Flood(R \cup new, new, open)

\* the maximal 4-connected region of '-' cells that holds find_origin(board)
RefRegion(board) ==
    LET o == find_origin(board) IN Flood({o}, {o}, CellsOf(board, "-"))

\* the board chk_ps is working on
TopBoard == call.board

\* ------------------------------------------------------------------------
\* C4: find_tiles(level 1, good_p [0]) returns exactly the leaves whose five
\* cells, shifted to find_origin(board), are all inside the board and '-'.
\* ------------------------------------------------------------------------
LeafFits(board, n) ==
    LET o == find_origin(board)
    IN  \A p \in NodeCells(tree[5][n + 1]) : IsOpen(board, <<o[1] + p[1], o[2] + p[2]>>)

LeafInside(board, n) ==
    LET o == find_origin(board)
    IN  \A p \in NodeCells(tree[5][n + 1]) :
            <<o[1] + p[1], o[2] + p[2]>> \in BoardCells(board)

C4_FindTilesExact ==
    pc = "chk_ps" =>
        LET t == ldft(TopBoard)
        IN  /\ SeqSet(t) = {n \in 0..(Len(tree[5]) - 1) : LeafFits(TopBoard, n)}
            /\ Cardinality(SeqSet(t)) = Len(t)

C4_Witness ==
    /\ pc = "chk_ps"
    /\ Placed(TopBoard) >= 1
    /\ ldft(TopBoard) # <<>>
    /\ \E n \in 0..(Len(tree[5]) - 1) :
           ~LeafInside(TopBoard, n) /\ ~InSeq(n, ldft(TopBoard))
    /\ \E n \in 0..(Len(tree[5]) - 1) :
           /\ LeafInside(TopBoard, n)
           /\ ~LeafFits(TopBoard, n)
           /\ ~InSeq(n, ldft(TopBoard))

\* ------------------------------------------------------------------------
\* C7: fragment_ok(board) holds iff the size of the '-' region of
\* find_origin(board) is divisible by 5, and count_open_area's passes stop
\* at that size.  The boards are those the solver gives to fragment_ok: the
\* boards of get_boards() and every board with a '-' given to w_newboard.
\* ------------------------------------------------------------------------
FragBoards ==
    IF probe = NoProbe THEN SeqSet(get_boards[keyi].boards)
    ELSE IF HasOpen(probe.board) THEN {probe.board}
    ELSE {}

C7_FragmentOkIsRegionMod5 ==
    \A b \in FragBoards :
        LET n == Cardinality(RefRegion(b))
        IN  /\ fragment_ok(b) <=> (n % 5 = 0)
            /\ count_open_area(set_points_in_board(<<find_origin(b)>>, b, "A")) = n

\* an isolated 4-cell pocket at the scan start
C7_Witness ==
    /\ probe # NoProbe
    /\ HasOpen(probe.board)
    /\ Cardinality(RefRegion(probe.board)) = 4
    /\ ~fragment_ok(probe.board)

C7_WitnessTrue ==
    /\ probe # NoProbe
    /\ HasOpen(probe.board)
    /\ Cardinality(RefRegion(probe.board)) \in {5, 10, 15}
    /\ fragment_ok(probe.board)

\* ------------------------------------------------------------------------
\* C8 as claimed: on every 4x15 and 6x10 board no_symmetry_issue is True.
\* ------------------------------------------------------------------------
SymBoards == IF probe = NoProbe THEN {TopBoard} ELSE {probe.board}

C8_Original ==
    \A b \in SymBoards : Len(b) \in {4, 6} => no_symmetry_issue(b)

\* C8 as amended: on every 6x10 board no_symmetry_issue is True; on a 4x15
\* board (width 15 is odd) it is False exactly when the centre column holds
\* three X cells and more Y cells lie left of that column than right of it.
CentreCol(b) == (Len(b[1]) - 1) \div 2

C8_Amended ==
    \A b \in SymBoards :
        /\ Len(b) = 6 => no_symmetry_issue(b)
        /\ Len(b) = 4 =>
              (no_symmetry_issue(b) <=>
                  ~(/\ Cardinality({p \in CellsOf(b, "X") : p[2] = CentreCol(b)}) = 3
                    /\ Cardinality({p \in CellsOf(b, "Y") : p[2] < CentreCol(b)})
                         > Cardinality({p \in CellsOf(b, "Y") : p[2] > CentreCol(b)})))

C8_Witness ==
    \E b \in SymBoards : Len(b) = 4 /\ CellsOf(b, "Y") # {} /\ ~no_symmetry_issue(b)

\* ------------------------------------------------------------------------
\* Reading a solution string back (tester.py)
\* ------------------------------------------------------------------------
\* sstring.split(): the maximal runs of characters between newlines
split(sstring) ==
    LET nl == {i \in 1..Len(sstring) : sstring[i] = "\n"}
        cut(j) == IF j = 0 THEN 0
                  ELSE IF j > Cardinality(nl) THEN Len(sstring) + 1
                  ELSE CHOOSE i \in nl : Cardinality({m \in nl : m < i}) = j - 1
        runs == [j \in 1..(Cardinality(nl) + 1) |->
                    SubSeq(sstring, cut(j - 1) + 1, cut(j) - 1)]
    IN  SelectSeq(runs, LAMBDA r : r # <<>>)

\* a[::-1]
Reverse(a) == [i \in 1..Len(a) |-> a[Len(a) + 1 - i]]

rflip(rows) == [i \in 1..Len(rows) |-> Reverse(rows[i])]

\* proc_sol: the four orientations of a solution
proc_sol(sstring) ==
    LET rows == split(sstring)
    IN  << List(rows), List(Reverse(rows)), List(rflip(rows)),
           List(rflip(Reverse(rows))) >>

\* ------------------------------------------------------------------------
\* SpecSolve: ssolve from the point where grow_tree() and make_layout_cmd()
\* have returned, one wrap_layouts(keyv) at a time, followed by a reference
\* enumeration of the tilings of the rectangles solved.
\* ------------------------------------------------------------------------
InitSolve ==
    /\ pc = "ssolve"
    /\ prev_nodes = <<>>
    /\ tree = grow_tree
    /\ boards = <<>>
    /\ layout = make_layout_cmd(get_boards)
    /\ keyi = 0
    /\ call = NoCall
    /\ probe = NoProbe
    /\ res = <<>>
    /\ ref = NoRef

\* wrap_layouts(keyv) for the next key: [keyv, chain(layout_res(layout[keyv]))]
wrap_layouts ==
    /\ pc = "ssolve"
    /\ keyi < MaxKeys
    /\ keyi' = keyi + 1
    /\ res' = Append(res, [key |-> layout[keyi + 1].key,
                           sols |-> layout_res(layout[keyi + 1].boards)])
    /\ IF keyi + 1 = MaxKeys
       THEN pc' = "done" /\ tree' = <<>> /\ layout' = <<>>
       ELSE UNCHANGED <<pc, tree, layout>>
    /\ UNCHANGED <<prev_nodes, boards, call, probe, ref>>

\* the rectangle of the k-th key: heights 3..6, area 60
KeyHeight(k) == k + 2
KeyWidth(k) == 60 \div (k + 2)
KeyLabels == <<"3x20", "4x15", "5x12", "6x10">>

\* Reference enumeration of the tilings of a rectangle, without any pruning:
\* any of the reference shapes of a congruence class not yet used is put at
\* the first empty cell in scan order.
RefClass(s) == CHOOSE t \in RefImages(s) : TRUE

\* the 63 placements of a pentomino whose first cell in scan order is (0,0),
\* each with its congruence class
RefPent == {[cells |-> s, class |-> RefClass(s)] : s \in RefShapes[5]}

RefLeast(S) == CHOOSE x \in S : \A y \in S : x <= y

\* the first cell of e in scan order: down each column, columns left to right
RefFirst(e) ==
    LET c0 == RefLeast({p[2] : p \in e})
    IN  <<RefLeast({p[1] : p \in {q \in e : q[2] = c0}}), c0>>

ref_start ==
    /\ pc = "done"
    /\ ref = NoRef
    /\ \E k \in 1..MaxKeys :
           ref' = [key |-> k,
                   open |-> (0..(KeyHeight(k) - 1)) \X (0..(KeyWidth(k) - 1)),
                   tiles |-> {},
                   used |-> {}]
    /\ UNCHANGED <<pc, prev_nodes, tree, boards, layout, keyi, call, probe, res>>

ref_place ==
    /\ pc = "done"
    /\ ref # NoRef
    /\ ref.open # {}
    /\ LET o == RefFirst(ref.open)
       IN  \E s \in RefPent :
               /\ s.class \notin ref.used
               /\ \A p \in s.cells : <<o[1] + p[1], o[2] + p[2]>> \in ref.open
               /\ LET at == {<<o[1] + p[1], o[2] + p[2]>> : p \in s.cells}
                  IN  ref' = [key |-> ref.key,
                              open |-> ref.open \ at,
                              tiles |-> ref.tiles \cup {at},
                              used |-> ref.used \cup {s.class}]
    /\ UNCHANGED <<pc, prev_nodes, tree, boards, layout, keyi, call, probe, res>>

SpecSolve == InitSolve /\ [][wrap_layouts \/ ref_start \/ ref_place]_vars

\* ------------------------------------------------------------------------
\* C1: every solution string emitted is a complete height x width grid with
\* no '-' cell in which each of the 12 letters occupies exactly 5 cells.
\* ------------------------------------------------------------------------
C1_SolutionsAreExactCovers ==
    \A k \in 1..Len(res) :
        /\ res[k].key = KeyLabels[k]
        /\ \A n \in 1..Len(res[k].sols) :
               LET sol == res[k].sols[n]
                   rows == split(sol)
               IN  /\ Len(rows) = KeyHeight(k)
                   /\ \A r \in 1..Len(rows) : Len(rows[r]) = KeyWidth(k)
                   /\ Len(sol) = KeyHeight(k) * KeyWidth(k) + KeyHeight(k) - 1
                   /\ ~InSeq("-", sol)
                   /\ \A l \in Letters : Count(sol, l) = 5

C1_Witness == \E k \in 1..Len(res) : res[k].sols # <<>>

SolTiling(rows) == {CellsOf(rows, l) : l \in Letters}

RefFull == ref # NoRef /\ ref.open = {}

IsGrid(b, h, w) == Len(b) = h /\ \A r \in 1..h : Len(b[r]) = w

C9_BoardsHoldOneXNoImages ==
    pc = "make_layout_cmd" =>
        /\ Len(boards) = 4
        /\ \A k \in 1..Len(boards) :
               LET bs == boards[k].boards
               IN  /\ boards[k].key = KeyLabels[k]
                   /\ \A i \in 1..Len(bs) :
                          /\ IsGrid(bs[i], KeyHeight(k), KeyWidth(k))
                          /\ \E p \in BoardCells(bs[i]) :
                                 CellsOf(bs[i], "X") = {p} \cup Nbrs(p)
                          /\ Cardinality(CellsOf(bs[i], "X")) = 5
                          /\ CellsOf(bs[i], "X") \cup CellsOf(bs[i], "-")
                                 = BoardCells(bs[i])
                   /\ \A i, j \in 1..Len(bs) :
                          i # j =>
                              /\ bs[j] # List(Reverse(bs[i]))
                              /\ bs[j] # List(rflip(bs[i]))
                              /\ bs[j] # List(rflip(Reverse(bs[i])))

C9_Witness ==
    /\ pc = "make_layout_cmd"
    /\ Len(boards) = 4
    /\ \A k \in 1..4 : Len(boards[k].boards) >= 6

LettersOn(board) == {ch \in SeqSet(Chain(board)) : ch # "-"}

SearchBoards ==
    (IF pc = "chk_ps" THEN {call.board} ELSE {})
        \cup (IF probe # NoProbe THEN {probe.board} ELSE {})

BoardWellFormed(b) ==
    /\ LettersOn(b) \subseteq Letters
    /\ "X" \in LettersOn(b)
    /\ \A l \in LettersOn(b) : Cardinality(CellsOf(b, l)) = 5
    /\ Cardinality(CellsOf(b, "-")) = 60 - 5 * Cardinality(LettersOn(b))

PlacementStep(old, new) ==
    LET changed == {p \in BoardCells(old) : old[p[1] + 1][p[2] + 1] # new[p[1] + 1][p[2] + 1]}
    IN  /\ Len(new) = Len(old)
        /\ Len(new[1]) = Len(old[1])
        /\ Cardinality(changed) = 5
        /\ \A p \in changed : old[p[1] + 1][p[2] + 1] = "-"
        /\ \E l \in Letters \ LettersOn(old) :
               \A p \in changed : new[p[1] + 1][p[2] + 1] = l

C11_PlacementInvariant ==
    /\ [](\A b \in SearchBoards : BoardWellFormed(b))
    /\ [][probe' # probe => PlacementStep(call.board, probe'.board)]_vars

\* a board with seven letters that the recursion was entered with
C11_Witness ==
    /\ pc = "chk_ps"
    /\ probe # NoProbe
    /\ probe.rec
    /\ call.board = probe.board
    /\ Cardinality(LettersOn(call.board)) = 7

\* ------------------------------------------------------------------------
\* C12: add_olinks never fails; for every node at (Python) index i of the
\* levels 1..4 the offspring field is the smallest index j of the next level
\* whose pindx is i, and the next-level nodes whose pindx is i are exactly
\* the indices j .. j + n - 1 for some n >= 1.
\* (Stated where the tree has its links: it never changes them afterwards.)
\* ------------------------------------------------------------------------
\* the Python indices of the nodes of a level whose pindx is i
ChildrenOf(level, i) == {j \in 0..(Len(level) - 1) : level[j + 1].pindx = i}

HasLinks == pc \in {"add_pent_numbs", "get_boards"}

C12_OffspringIsFirstChild ==
    /\ pc # "LookupError"
    /\ HasLinks =>
          \A k \in 1..4 :
              \A i \in 0..(Len(tree[k]) - 1) :
                  LET ch == ChildrenOf(tree[k + 1], i)
                      j == tree[k][i + 1].offspring
                  IN  /\ "offspring" \in DOMAIN tree[k][i + 1]
                      /\ ch # {}
                      /\ j \in ch
                      /\ \A m \in ch : j <= m
                      /\ ch = j..(j + Cardinality(ch) - 1)

\* a node with several children that is not the first of its level
C12_Witness ==
    /\ HasLinks
    /\ \E i \in 1..(Len(tree[4]) - 1) :
           /\ Cardinality(ChildrenOf(tree[5], i)) >= 3
           /\ tree[4][i + 1].offspring > 0

\* ------------------------------------------------------------------------
\* C13: the order in which next_level generates the children of one parent.
\* GenLevels holds the level about to be appended, as next_level returns it
\* (before rm_dups), and the levels already kept (after rm_dups).
\* ------------------------------------------------------------------------
Dist(coord) == Abs(coord[1]) + Abs(coord[2])

GenLevels ==
    IF pc # "gen_tree" THEN {}
    ELSE (IF Len(prev_nodes) < 5 THEN {List(next_level(prev_nodes))} ELSE {})
             \cup {prev_nodes[k] : k \in 2..Len(prev_nodes)}

\* C13 as claimed: among the children of one parent, a child nearer to (0,0)
\* comes before every child farther from it.
C13_Original ==
    \A lev \in GenLevels :
        \A a, b \in 1..Len(lev) :
            (lev[a].pindx = lev[b].pindx /\ Dist(lev[a].coord) < Dist(lev[b].coord))
                => a < b

\* C13 as amended: among the children of one parent, a child farther from
\* (0,0) comes before every nearer one, and of two children at the same
\* distance the one with the larger row offset (coord[0]) comes first.
C13_Amended ==
    \A lev \in GenLevels :
        \A a, b \in 1..Len(lev) :
            (lev[a].pindx = lev[b].pindx /\ a < b) =>
                \/ Dist(lev[a].coord) > Dist(lev[b].coord)
                \/ /\ Dist(lev[a].coord) = Dist(lev[b].coord)
                   /\ lev[a].coord[1] > lev[b].coord[1]

\* a parent whose generated children lie at two different distances
C13_Witness ==
    \E lev \in GenLevels :
        \E a, b \in 1..Len(lev) :
            /\ lev[a].pindx = lev[b].pindx
            /\ a < b
            /\ Dist(lev[a].coord) = 3
            /\ Dist(lev[b].coord) = 1

====
